---- MODULE Spec2Model ----
(***************************************************************************)
(* Model of src/app.py: the url validation (extraer_video_id), the chunker  *)
(* (chunk_text), the per-chunk summary coroutine (summarize_text_async),   *)
(* the fan-out (process_chunks_concurrently, asyncio.gather), the streamed *)
(* final synthesis (generate_final_summary) and the main script that       *)
(* sequences them.                                                         *)
(*                                                                         *)
(* A Python str is a sequence of one-character strings, one element per    *)
(* code point; a code point outside ASCII is written by its name, as in    *)
(* "U+26A0".                                                               *)
(***************************************************************************)
EXTENDS Integers, Sequences, FiniteSets, TLC

\* ---------------------------------------------------------------- bounds
\* longest text given to chunk_text in SpecChunk
MaxLen == 5
\* largest max_words given to chunk_text in SpecChunk
MaxWords == 3

Letters == {"a", "b"}
Whitespace == {" ", "\n"}
Chars == Letters \cup Whitespace

\* ------------------------------------------------------- str operations
IsSpace(c) == c \in Whitespace

\* index of the first element of s satisfying "is sep", or Len(s)+1
FirstIndexOf(s, sep) ==
    IF \E k \in 1..Len(s) : s[k] = sep
    THEN CHOOSE k \in 1..Len(s) : s[k] = sep /\ \A j \in 1..(k-1) : s[j] # sep
    ELSE Len(s) + 1

FirstSpace(s) ==
    IF \E k \in 1..Len(s) : IsSpace(s[k])
    THEN CHOOSE k \in 1..Len(s) : IsSpace(s[k]) /\ \A j \in 1..(k-1) : ~IsSpace(s[j])
    ELSE Len(s) + 1

\* str.split(sep) for a one-character separator: keeps empty pieces
RECURSIVE SplitOn(_, _)
SplitOn(s, sep) ==
    LET k == FirstIndexOf(s, sep)
    IN  IF k > Len(s) THEN <<s>>
        ELSE <<SubSeq(s, 1, k-1)>> \o SplitOn(SubSeq(s, k+1, Len(s)), sep)

\* str.split() without argument: runs of whitespace separate, no empty piece
RECURSIVE SplitWs(_)
SplitWs(s) ==
    IF s = <<>> THEN <<>>
    ELSE IF IsSpace(s[1]) THEN SplitWs(Tail(s))
    ELSE LET e == FirstSpace(s)
         IN  <<SubSeq(s, 1, e-1)>> \o SplitWs(SubSeq(s, e, Len(s)))

\* sep.join(parts)
RECURSIVE Join(_, _)
Join(sep, parts) ==
    IF parts = <<>> THEN <<>>
    ELSE IF Len(parts) = 1 THEN parts[1]
    ELSE parts[1] \o sep \o Join(sep, Tail(parts))

\* s[:n]
Take(s, n) == SubSeq(s, 1, IF Len(s) < n THEN Len(s) ELSE n)

\* s.startswith(w)
StartsWith(s, w) ==
    /\ Len(w) <= Len(s)
    /\ \A k \in 1..Len(w) : s[k] = w[k]

\* str.strip()
RECURSIVE StripLeft(_)
StripLeft(s) == IF s # <<>> /\ IsSpace(s[1]) THEN StripLeft(Tail(s)) ELSE s
RECURSIVE StripRight(_)
StripRight(s) ==
    IF s # <<>> /\ IsSpace(s[Len(s)]) THEN StripRight(SubSeq(s, 1, Len(s)-1)) ELSE s
Strip(s) == StripRight(StripLeft(s))

\* --------------------------------------------------------------- chunker
\* the generator's locals before the loop (lines 79-80); out = what was yielded
ChunkInit == [current_chunk |-> <<>>, current_word_count |-> 0, out |-> <<>>]

\* mutant: the paragraph's words are appended only when nothing was yielded
ChunkStepDropsWords(st, para, max_words) ==
    LET words == SplitWs(para)
    IN  IF st.current_word_count + Len(words) > max_words
        THEN [current_chunk |-> <<>>,
              current_word_count |-> 0,
              out |-> Append(st.out, Join(<<" ">>, st.current_chunk))]
        ELSE [current_chunk |-> st.current_chunk \o words,
              current_word_count |-> st.current_word_count + Len(words),
              out |-> st.out]

\* mutant: the chunk is closed only once it is already full
ChunkStepLateClose(st, para, max_words) ==
    LET words == SplitWs(para)
    IN  IF st.current_word_count >= max_words
        THEN [current_chunk |-> words,
              current_word_count |-> Len(words),
              out |-> Append(st.out, Join(<<" ">>, st.current_chunk))]
        ELSE [current_chunk |-> st.current_chunk \o words,
              current_word_count |-> st.current_word_count + Len(words),
              out |-> st.out]

\* one iteration of "for para in paragraphs" (lines 83-89)
ChunkStep(st, para, max_words) ==
    LET words == SplitWs(para)
    IN  IF st.current_word_count + Len(words) > max_words
        THEN [current_chunk |-> words,
              current_word_count |-> Len(words),
              out |-> Append(st.out, Join(<<" ">>, st.current_chunk))]
        ELSE [current_chunk |-> st.current_chunk \o words,
              current_word_count |-> st.current_word_count + Len(words),
              out |-> st.out]

RECURSIVE ChunkLoop(_, _, _)
ChunkLoop(st, paragraphs, max_words) ==
    IF paragraphs = <<>> THEN st
    ELSE ChunkLoop(ChunkStep(st, Head(paragraphs), max_words), Tail(paragraphs), max_words)

\* list(chunk_text(text, max_words)) (lines 77-92)
chunk_text(text, max_words) ==
    LET paragraphs == SplitOn(text, "\n")
        st == ChunkLoop(ChunkInit, paragraphs, max_words)
    IN  IF st.current_chunk # <<>>
        THEN Append(st.out, Join(<<" ">>, st.current_chunk))
        ELSE st.out

\* ---------------------------------------------------- pipeline bounds
\* most caption segments in a transcript
MaxSegs == 3
\* most increments the service streams for the final summary
MaxIncrements == 2
\* MAX_WORDS_PER_CHUNK (line 10, 1500), scaled to the texts of the model
MAX_WORDS_PER_CHUNK == 1
\* text[:8000] (line 100), scaled
ChunkCharBudget == 3
\* combined[:12000] (line 130), scaled
SynthCharBudget == 6

\* t['text'] of a caption segment
SegTexts == { <<"a", "\n">>, <<"b">>, <<>> }

\* what chat.completions.create can do for a per-chunk request:
\* return a completion with text content, return one whose content is
\* None, or raise
Completions == { <<"s", " ">>, <<" ">> }
ServiceErrors == { "RateLimited", "InvalidRequest" }
TransientErrors == { "RateLimited", "Timeout" }
Replies ==
    [kind : {"ok"}, content : Completions]
        \cup {[kind |-> "none"]}
        \cup [kind : {"error"}, error : ServiceErrors]

\* delta.content of a streamed chunk; <<>> stands for "" and None
Deltas == { <<>>, <<"x">>, <<"y">> }
StreamErrors == { "Timeout" }

\* the fixed parts of the two f-strings of lines 114 and 152, character by
\* character (29 and 26 code points)
ErrPartialPrefix ==
    << "U+26A0", "U+FE0F", " ", "E", "r", "r", "o", "r", " ", "e",
       "n", " ", "r", "e", "s", "u", "m", "e", "n", " ", "p", "a",
       "r", "c", "i", "a", "l", ":", " " >>
ErrFinalPrefix ==
    << "U+1F6A8", " ", "E", "r", "r", "o", "r", " ", "e", "n",
       " ", "r", "e", "s", "u", "m", "e", "n", " ", "f", "i", "n",
       "a", "l", ":", " " >>
\* str(e) of the AttributeError that None.strip() raises at line 112
NoneStripError ==
    << "'", "N", "o", "n", "e", "T", "y", "p", "e", "'", " ", "o",
       "b", "j", "e", "c", "t", " ", "h", "a", "s", " ", "n", "o",
       " ", "a", "t", "t", "r", "i", "b", "u", "t", "e", " ", "'",
       "s", "t", "r", "i", "p", "'" >>
\* str(e) of an exception of the service: its name
ErrorText(e) ==
    CASE e = "RateLimited" ->
           << "R", "a", "t", "e", "L", "i", "m", "i", "t", "e", "d" >>
      [] e = "InvalidRequest" ->
           << "I", "n", "v", "a", "l", "i", "d", "R", "e", "q", "u", "e",
              "s", "t" >>
      [] e = "Timeout" ->
           << "T", "i", "m", "e", "o", "u", "t" >>

\* ---------------------------------------------------------- summarizer
\* the text substituted in the prompt of line 100
chunk_prompt(chunk) == Take(chunk, ChunkCharBudget)

\* mutant: no try/except around the request, the exception leaves the coroutine
summarize_outcome_raises(reply) ==
    IF reply.kind = "ok"
    THEN [raised |-> FALSE, value |-> Strip(reply.content)]
    ELSE IF reply.kind = "none"
    THEN [raised |-> TRUE, value |-> NoneStripError]
    ELSE [raised |-> TRUE, value |-> ErrorText(reply.error)]

\* how summarize_text_async ends, given what the request did (lines 102-114)
summarize_outcome(reply) ==
    IF reply.kind = "ok"
    THEN [raised |-> FALSE, value |-> Strip(reply.content)]
    ELSE IF reply.kind = "none"
    THEN [raised |-> FALSE, value |-> ErrPartialPrefix \o NoneStripError]
    ELSE [raised |-> FALSE, value |-> ErrPartialPrefix \o ErrorText(reply.error)]

\* a coroutine object of line 117, before it is scheduled
NewTask == [state |-> "created", calls |-> 0, prompt |-> <<>>,
            reply |-> [kind |-> "pending"],
            outcome |-> [raised |-> FALSE, value |-> <<>>]]

\* mutant: results collected in completion order
gather_as_completed(ts, order) ==
    [i \in 1..Len(ts) |-> ts[order[i]].outcome.value]

\* the list asyncio.gather returns: the results in the order of the awaitables
gather(ts, order) ==
    [i \in 1..Len(ts) |-> ts[i].outcome.value]

\* mutant: the budget keeps the end of the combined text
synthesis_prompt_tail(partials) ==
    LET combined == Join(<<"\n", "\n">>, partials)
    IN  IF Len(combined) <= SynthCharBudget THEN combined
        ELSE SubSeq(combined, Len(combined) - SynthCharBudget + 1, Len(combined))

\* the text substituted in the prompt of line 130
synthesis_prompt(partials) ==
    Take(Join(<<"\n", "\n">>, partials), SynthCharBudget)

\* ------------------------------------------------------ extraer_video_id
\* length of a video identifier ({11} in lines 27-28), scaled
IdLen == 2
\* longest url typed in the form in SpecUrl
MaxUrlLen == 5
\* the characters a url of SpecUrl is made of
UrlChars == {"v", "e", "x", "=", "/"}
\* those of them that the class [0-9A-Za-z_-] accepts
IdChars == {"v", "e", "x"}

\* the alternatives of the non-capturing group of line 27, in their order
Prefixes == << <<"v", "=">>,
               <<"/", "v", "i", "d", "e", "o", "s", "/">>,
               <<"e", "m", "b", "e", "d", "/">>,
               <<"s", "h", "o", "r", "t", "s", "/">>,
               <<"v", "/">>,
               <<"e", "/">>,
               <<"w", "a", "t", "c", "h", "?", "v", "=">> >>

\* the value None and a match object with its group 1
None == [matched |-> FALSE]
Match(id) == [matched |-> TRUE, id |-> id]

\* s has the piece w at position p
HasAt(s, p, w) ==
    /\ p + Len(w) - 1 <= Len(s)
    /\ \A k \in 1..Len(w) : s[p + k - 1] = w[k]

\* s has IdLen identifier characters at position p
IdAt(s, p) ==
    /\ p + IdLen - 1 <= Len(s)
    /\ \A k \in p..(p + IdLen - 1) : s[k] \in IdChars

\* alternative k of line 27 followed by an identifier matches at position p
AltMatchesAt(s, p, k) ==
    HasAt(s, p, Prefixes[k]) /\ IdAt(s, p + Len(Prefixes[k]))

\* re.search of the pattern of line 27: leftmost position, first alternative
search_prefixed(s) ==
    IF \E p \in 1..Len(s) : \E k \in 1..Len(Prefixes) : AltMatchesAt(s, p, k)
    THEN LET p == CHOOSE q \in 1..Len(s) :
                     /\ \E k \in 1..Len(Prefixes) : AltMatchesAt(s, q, k)
                     /\ \A r \in 1..(q-1) : \A k \in 1..Len(Prefixes) : ~AltMatchesAt(s, r, k)
             k == CHOOSE a \in 1..Len(Prefixes) :
                     /\ AltMatchesAt(s, p, a)
                     /\ \A b \in 1..(a-1) : ~AltMatchesAt(s, p, b)
             start == p + Len(Prefixes[k])
         IN  Match(SubSeq(s, start, start + IdLen - 1))
    ELSE None

\* re.search of the pattern of line 28: the whole string is an identifier
\* (the urls of the model have no trailing newline for $ to skip)
search_bare(s) ==
    IF Len(s) = IdLen /\ IdAt(s, 1) THEN Match(s) ELSE None

\* re.search(patterns[k], url) for the list of lines 26-29
re_search(k, s) == IF k = 1 THEN search_prefixed(s) ELSE search_bare(s)
NumPatterns == 2

\* lines 30-32: the body of the loop returns in its first iteration, for
\* the first pattern, whether it matched or not
extraer_video_id(u) ==
    LET match == re_search(1, u)
    IN  IF match.matched THEN Match(match.id) ELSE None

\* ---------------------------------------------------------- streaming
\* mutant: the display re-appends the text received so far with the increment
forward_delta_cumulative(received, content) ==
    IF content # <<>>
    THEN Append(received, Join(<<>>, received) \o content)
    ELSE received

\* lines 146-149 and 210-211: a chunk's content is yielded when it is truthy,
\* and display_final_summary appends what is yielded to full_summary
forward_delta(received, content) ==
    IF content # <<>> THEN Append(received, content) ELSE received

\* ------------------------------------------------------------- variables
VARIABLES
    transcript,         \* get_transcript(video_id): the segments' texts
    text,               \* argument of chunk_text; full_text in the script
    max_words,          \* argument of chunk_text
    chunks,             \* list(chunk_text(...))
    tasks,              \* the summarize_text_async coroutines of line 117
    done_order,         \* indices of the coroutines in the order they finished
    partial_summaries,  \* what process_chunks returned
    progress,           \* calls of progress_bar.progress made so far
    synth_calls,        \* synthesis requests issued to the service
    synth_prompt,       \* text substituted in the synthesis prompt
    service_stream,     \* delta contents the service has streamed
    full_summary,       \* what display_final_summary has received
    synth_error,        \* the exception the synthesis request or stream raised
    url,                \* the text typed in the form (line 170)
    video_id,           \* extraer_video_id(url) (line 174)
    attempts,           \* attempts of get_transcript that raised (line 35)
    pc                  \* position of the script

vars == <<transcript, text, max_words, chunks, tasks, done_order,
          partial_summaries, progress, synth_calls, synth_prompt,
          service_stream, full_summary, synth_error, url, video_id,
          attempts, pc>>

pipeVars == <<transcript, tasks, done_order, partial_summaries, progress,
              synth_calls, synth_prompt, service_stream, full_summary,
              synth_error, url, video_id, attempts>>

\* stop_after_attempt(3) of line 35
StopAfterAttempt == 3

\* no exception raised by the synthesis request or its stream
NoError == "none"

RECURSIVE SeqsUpTo(_, _)
SeqsUpTo(S, n) ==
    IF n = 0 THEN {<<>>}
    ELSE LET shorter == SeqsUpTo(S, n-1)
         IN  shorter \cup {Append(s, c) : s \in shorter, c \in S}

\* ------------------------------------------- specification of chunk_text
InitChunk ==
    /\ text \in SeqsUpTo(Chars, MaxLen)
    /\ max_words \in 1..MaxWords
    /\ chunks = <<>>
    /\ pc = "chunk_call"
    /\ transcript = <<>>
    /\ tasks = <<>>
    /\ done_order = <<>>
    /\ partial_summaries = <<>>
    /\ progress = 0
    /\ synth_calls = 0
    /\ synth_prompt = <<>>
    /\ service_stream = <<>>
    /\ full_summary = <<>>
    /\ synth_error = NoError
    /\ attempts = 0
    /\ url = <<>>
    /\ video_id = None

CallChunkText ==
    /\ pc = "chunk_call"
    /\ chunks' = chunk_text(text, max_words)
    /\ pc' = "chunk_done"
    /\ UNCHANGED <<text, max_words, pipeVars>>

NextChunk == CallChunkText

SpecChunk == InitChunk /\ [][NextChunk]_vars

\* ------------------------- chunk_text on texts given as a list of lines
\* most lines of a text in SpecLines
MaxLines == 3
\* the lines a text of SpecLines is made of: blank, one word, two words
LineTexts == { <<>>, <<" ">>, <<"a">>, <<"a", " ", "b">> }

InitLines ==
    /\ \E ls \in SeqsUpTo(LineTexts, MaxLines) : text = Join(<<"\n">>, ls)
    /\ max_words \in 1..MaxWords
    /\ chunks = <<>>
    /\ pc = "chunk_call"
    /\ transcript = <<>>
    /\ tasks = <<>>
    /\ done_order = <<>>
    /\ partial_summaries = <<>>
    /\ progress = 0
    /\ synth_calls = 0
    /\ synth_prompt = <<>>
    /\ service_stream = <<>>
    /\ full_summary = <<>>
    /\ synth_error = NoError
    /\ attempts = 0
    /\ url = <<>>
    /\ video_id = None

SpecLines == InitLines /\ [][NextChunk]_vars

\* ----------------------------------- specification of the url validation
InitUrl ==
    /\ url \in SeqsUpTo(UrlChars, MaxUrlLen) \ {<<>>}
    /\ video_id = None
    /\ pc = "form_submitted"
    /\ text = <<>>
    /\ max_words = MAX_WORDS_PER_CHUNK
    /\ chunks = <<>>
    /\ transcript = <<>>
    /\ tasks = <<>>
    /\ done_order = <<>>
    /\ partial_summaries = <<>>
    /\ progress = 0
    /\ synth_calls = 0
    /\ synth_prompt = <<>>
    /\ service_stream = <<>>
    /\ full_summary = <<>>
    /\ synth_error = NoError
    /\ attempts = 0

\* lines 172-177: the form was submitted with a url; an input for which
\* extraer_video_id returns None is rejected
ExtractVideoId ==
    /\ pc = "form_submitted"
    /\ url # <<>>
    /\ video_id' = extraer_video_id(url)
    /\ pc' = IF video_id'.matched THEN "get_transcript" ELSE "invalid_url"
    /\ UNCHANGED <<attempts, url, transcript, text, max_words, chunks, tasks, done_order,
                   partial_summaries, progress, synth_calls, synth_prompt,
                   service_stream, full_summary, synth_error>>

NextUrl == ExtractVideoId

SpecUrl == InitUrl /\ [][NextUrl]_vars

\* --------------------------------------------- specification of the script
\* the urls typed in the form in Spec: two that the first pattern matches,
\* a bare identifier and a text that is no url
IdOf(c) == [k \in 1..IdLen |-> c]
SubmittedUrls == { <<"v", "=">> \o IdOf("e"), <<"e", "/">> \o IdOf("x"),
                   IdOf("e"), <<"=">> }

\* the form was submitted with a url (lines 169-172)
Init ==
    /\ transcript = <<>>
    /\ text = <<>>
    /\ max_words = MAX_WORDS_PER_CHUNK
    /\ chunks = <<>>
    /\ tasks = <<>>
    /\ done_order = <<>>
    /\ partial_summaries = <<>>
    /\ progress = 0
    /\ synth_calls = 0
    /\ synth_prompt = <<>>
    /\ service_stream = <<>>
    /\ full_summary = <<>>
    /\ synth_error = NoError
    /\ attempts = 0
    /\ url \in SubmittedUrls
    /\ video_id = None
    /\ pc = "form_submitted"

\* lines 180, 34-46: get_transcript returns the fetched segments
GetTranscriptReturns(t) ==
    /\ pc = "get_transcript"
    /\ transcript' = t
    /\ pc' = "transcript"
    /\ UNCHANGED <<attempts, url, video_id, text, max_words, chunks, tasks, done_order,
                   partial_summaries, progress, synth_calls, synth_prompt,
                   service_stream, full_summary, synth_error>>

\* lines 48-75: get_transcript reports that no transcript can be had and
\* stops the script with st.stop()
GetTranscriptStops ==
    /\ pc = "get_transcript"
    /\ pc' = "stopped"
    /\ UNCHANGED <<text, max_words, chunks, pipeVars>>

\* lines 35, 59, 227-234: an attempt of get_transcript raises (the call of
\* line 59 inside the handler of line 58 is outside every try); @retry runs
\* the function again until stop_after_attempt is reached, then raises
\* RetryError, which the handler of line 227 reports
GetTranscriptRaises ==
    /\ pc = "get_transcript"
    /\ attempts' = attempts + 1
    /\ pc' = IF attempts' >= StopAfterAttempt THEN "critical_error" ELSE pc
    /\ UNCHANGED <<url, video_id, transcript, text, max_words, chunks, tasks,
                   done_order, partial_summaries, progress, synth_calls,
                   synth_prompt, service_stream, full_summary, synth_error>>

\* lines 181-187: join the segments, chunk the text
Prepare ==
    /\ pc = "transcript"
    /\ text' = Join(<<" ">>, transcript)
    /\ chunks' = chunk_text(text', max_words)
    /\ pc' = "process_chunks"
    /\ UNCHANGED <<max_words, pipeVars>>

\* lines 200, 191, 117-118: one coroutine per chunk, handed to gather
CreateTasks ==
    /\ pc = "process_chunks"
    /\ tasks' = [i \in 1..Len(chunks) |-> NewTask]
    /\ pc' = "gather"
    /\ UNCHANGED <<attempts, synth_error, url, video_id, transcript, text, max_words, chunks, done_order,
                   partial_summaries, progress, synth_calls, synth_prompt,
                   service_stream, full_summary>>

\* lines 95-111: coroutine i builds its prompt and issues its request
SendRequest(i) ==
    /\ pc = "gather"
    /\ tasks[i].state = "created"
    /\ tasks' = [tasks EXCEPT ![i].state = "in_flight",
                              ![i].calls = @ + 1,
                              ![i].prompt = chunk_prompt(chunks[i])]
    /\ UNCHANGED <<attempts, synth_error, url, video_id, transcript, text, max_words, chunks, done_order,
                   partial_summaries, progress, synth_calls, synth_prompt,
                   service_stream, full_summary, pc>>

\* lines 112-114: the request of coroutine i returns or raises
ReceiveReply(i, reply) ==
    /\ pc = "gather"
    /\ tasks[i].state = "in_flight"
    /\ tasks' = [tasks EXCEPT ![i].state = "done",
                              ![i].reply = reply,
                              ![i].outcome = summarize_outcome(reply)]
    /\ done_order' = Append(done_order, i)
    /\ UNCHANGED <<attempts, synth_error, url, video_id, transcript, text, max_words, chunks,
                   partial_summaries, progress, synth_calls, synth_prompt,
                   service_stream, full_summary, pc>>

\* mutant: the fan-out returns as soon as one coroutine is done
FirstTaskDone == Len(tasks) = 0 \/ \E i \in 1..Len(tasks) : tasks[i].state = "done"

SomeTaskRaised == \E i \in 1..Len(tasks) : tasks[i].state = "done" /\ tasks[i].outcome.raised
AllTasksDone == \A i \in 1..Len(tasks) : tasks[i].state = "done"

\* lines 118, 191: gather returns the results once every coroutine is done,
\* or raises the first exception a coroutine raised (caught at line 227)
GatherReturns ==
    /\ pc = "gather"
    /\ SomeTaskRaised \/ AllTasksDone
    /\ IF SomeTaskRaised
       THEN /\ pc' = "critical_error"
            /\ UNCHANGED partial_summaries
       ELSE /\ partial_summaries' = gather(tasks, done_order)
            /\ pc' = "progress"
    /\ UNCHANGED <<attempts, synth_error, url, video_id, transcript, text, max_words, chunks, tasks, done_order,
                   progress, synth_calls, synth_prompt,
                   service_stream, full_summary>>

\* lines 194-196: one iteration of the progress loop
ProgressTick ==
    /\ pc = "progress"
    /\ progress < Len(chunks)
    /\ progress' = progress + 1
    /\ UNCHANGED <<attempts, synth_error, url, video_id, transcript, text, max_words, chunks, tasks, done_order,
                   partial_summaries, synth_calls, synth_prompt,
                   service_stream, full_summary, pc>>

\* lines 198-214: process_chunks returns, display_final_summary starts
ProcessChunksReturns ==
    /\ pc = "progress"
    /\ progress = Len(chunks)
    /\ pc' = "final_summary"
    /\ UNCHANGED <<text, max_words, chunks, pipeVars>>

\* lines 121-142: build the prompt and issue the streamed request
SynthesisRequest ==
    /\ pc = "final_summary"
    /\ synth_prompt' = synthesis_prompt(partial_summaries)
    /\ synth_calls' = synth_calls + 1
    /\ pc' = "synth_create"
    /\ UNCHANGED <<attempts, synth_error, url, video_id, transcript, text, max_words, chunks, tasks, done_order,
                   partial_summaries, progress, service_stream, full_summary>>

\* line 133 returns the stream
SynthesisCreated ==
    /\ pc = "synth_create"
    /\ pc' = "streaming"
    /\ UNCHANGED <<text, max_words, chunks, pipeVars>>

\* mutant: the exception ends the stream without any event
SynthesisRaisesSilently(e) ==
    /\ pc \in {"synth_create", "streaming"}
    /\ synth_error' = e
    /\ pc' = "done"
    /\ UNCHANGED <<attempts, url, video_id, transcript, text, max_words, chunks, tasks, done_order,
                   partial_summaries, progress, synth_calls, synth_prompt,
                   service_stream, full_summary>>

\* lines 151-152, 210-212: the request or the stream raises
SynthesisRaises(e) ==
    /\ pc \in {"synth_create", "streaming"}
    /\ synth_error' = e
    /\ full_summary' = Append(full_summary, ErrFinalPrefix \o ErrorText(e))
    /\ pc' = "done"
    /\ UNCHANGED <<attempts, url, video_id, transcript, text, max_words, chunks, tasks, done_order,
                   partial_summaries, progress, synth_calls, synth_prompt,
                   service_stream>>

\* lines 145-149, 210-212: one streamed chunk; empty content is skipped
StreamDelta(content) ==
    /\ pc = "streaming"
    /\ Len(service_stream) < MaxIncrements
    /\ service_stream' = Append(service_stream, content)
    /\ full_summary' = forward_delta(full_summary, content)
    /\ UNCHANGED <<attempts, synth_error, url, video_id, transcript, text, max_words, chunks, tasks, done_order,
                   partial_summaries, progress, synth_calls, synth_prompt, pc>>

\* line 145: the stream is exhausted
StreamEnds ==
    /\ pc = "streaming"
    /\ pc' = "done"
    /\ UNCHANGED <<text, max_words, chunks, pipeVars>>

Next ==
    \/ ExtractVideoId
    \/ \E t \in SeqsUpTo(SegTexts, MaxSegs) : GetTranscriptReturns(t)
    \/ GetTranscriptStops
    \/ GetTranscriptRaises
    \/ Prepare
    \/ CreateTasks
    \/ \E i \in 1..Len(tasks) : SendRequest(i)
    \/ \E i \in 1..Len(tasks) : \E reply \in Replies : ReceiveReply(i, reply)
    \/ GatherReturns
    \/ ProgressTick
    \/ ProcessChunksReturns
    \/ SynthesisRequest
    \/ SynthesisCreated
    \/ \E e \in StreamErrors : SynthesisRaises(e)
    \/ \E content \in Deltas : StreamDelta(content)
    \/ StreamEnds

Spec == Init /\ [][Next]_vars

\* ------------------------------------------------------ chunker claims
\* all words of a list of chunks, in order
WordsOfChunks(cs) == SplitWs(Join(<<" ">>, cs))

\* C1: joining the chunks with single spaces and splitting on whitespace
\* gives the word sequence of the original text.
C1_Lossless ==
    pc = "chunk_done" => WordsOfChunks(chunks) = SplitWs(text)

C1_Witness ==
    /\ pc = "chunk_done"
    /\ Len(chunks) >= 2
    /\ Len(SplitWs(text)) >= 3
    /\ \E i, j \in 1..Len(SplitWs(text)) : SplitWs(text)[i] # SplitWs(text)[j]

\* C2: every chunk emitted by chunk_text has non-empty text.
C2_NoEmptyChunk ==
    pc = "chunk_done" => \A k \in 1..Len(chunks) : chunks[k] # <<>>

\* number of words in the first k elements of a list of strings
RECURSIVE WordsBefore(_, _)
WordsBefore(strs, k) ==
    IF k <= 1 THEN 0 ELSE WordsBefore(strs, k-1) + Len(SplitWs(strs[k-1]))

\* C3: each chunk has at most max_words words, or is exactly the words of
\* one paragraph that alone has more than max_words words.
C3_SizeBound ==
    pc = "chunk_done" =>
        LET paragraphs == SplitOn(text, "\n")
        IN  \A k \in 1..Len(chunks) :
                \/ Len(SplitWs(chunks[k])) <= max_words
                \/ \E p \in 1..Len(paragraphs) :
                       /\ Len(SplitWs(paragraphs[p])) > max_words
                       /\ WordsBefore(paragraphs, p) = WordsBefore(chunks, k)
                       /\ SplitWs(paragraphs[p]) = SplitWs(chunks[k])

C3_Witness ==
    /\ pc = "chunk_done"
    /\ \E k \in 1..Len(chunks) : Len(SplitWs(chunks[k])) > max_words
    /\ \E k \in 1..Len(chunks) : chunks[k] # <<>> /\ Len(SplitWs(chunks[k])) <= max_words
    /\ Len(SplitOn(text, "\n")) >= 2

\* ------------------------------------------------------ pipeline claims
PostGather == {"progress", "final_summary", "synth_create", "streaming", "done"}
Terminal == {"done", "critical_error"}

\* the value summarize_text_async returns after catching an exception
IsFailureText(v) == StartsWith(v, ErrPartialPrefix)
TaskFailed(i) == tasks[i].state = "done" /\ tasks[i].reply.kind # "ok"
TaskSucceeded(i) == tasks[i].state = "done" /\ tasks[i].reply.kind = "ok"
InFlight == {i \in 1..Len(tasks) : tasks[i].state = "in_flight"}

\* C4: whatever the completion order, process_chunks_concurrently returns
\* one entry per chunk and entry i is the outcome of the request made for chunk i.
C4_ResultOrder ==
    pc \in PostGather =>
        /\ Len(partial_summaries) = Len(chunks)
        /\ \A i \in 1..Len(chunks) :
               /\ tasks[i].prompt = chunk_prompt(chunks[i])
               /\ partial_summaries[i] = tasks[i].outcome.value

C4_Witness ==
    /\ pc = "progress"
    /\ Len(chunks) >= 2
    /\ done_order[1] # 1
    /\ chunks[1] # chunks[2]
    /\ partial_summaries[1] # partial_summaries[2]

\* C5: a chunk whose every request failed with a transient error has had
\* exactly 3 requests issued and ends as a failure.
C5_RetryExhaustion ==
    \A i \in 1..Len(tasks) :
        ( /\ tasks[i].state = "done"
          /\ tasks[i].reply.kind = "error"
          /\ tasks[i].reply.error \in TransientErrors )
        => /\ tasks[i].calls = 3
           /\ IsFailureText(tasks[i].outcome.value)

AllChunksFailed == Len(tasks) >= 1 /\ \A i \in 1..Len(tasks) : TaskFailed(i)

\* C6: when every chunk failed, no synthesis request is issued and the run
\* does not end as a completed run.
C6_AllFailureEscalation ==
    AllChunksFailed =>
        /\ synth_calls = 0
        /\ pc \in Terminal => pc = "critical_error"

\* the returned texts of the chunks that succeeded, in chunk order, among the first k
RECURSIVE SuccessfulPartials(_)
SuccessfulPartials(k) ==
    IF k = 0 THEN <<>>
    ELSE IF tasks[k].reply.kind = "ok"
         THEN Append(SuccessfulPartials(k-1), tasks[k].outcome.value)
         ELSE SuccessfulPartials(k-1)

SomeButNotAllFailed ==
    /\ \A i \in 1..Len(tasks) : tasks[i].state = "done"
    /\ \E i \in 1..Len(tasks) : TaskFailed(i)
    /\ \E i \in 1..Len(tasks) : TaskSucceeded(i)

\* C7: when some but not all chunks failed, the run goes on to synthesis and
\* the synthesis prompt is built from the successful partial summaries only.
C7_PartialFailureTolerance ==
    SomeButNotAllFailed =>
        /\ pc # "critical_error"
        /\ synth_calls > 0 =>
               synth_prompt = synthesis_prompt(SuccessfulPartials(Len(tasks)))

\* C8: for an empty or whitespace-only transcript no request is issued to
\* the service and the run does not end as a completed run.
C8_InputValidation ==
    Strip(Join(<<" ">>, transcript)) = <<>> =>
        /\ synth_calls = 0
        /\ \A i \in 1..Len(tasks) : tasks[i].calls = 0
        /\ pc \in Terminal => pc = "critical_error"

\* C9: at most "ceiling" per-chunk requests are in flight at once, here for
\* a configured ceiling of 2.
C9_ConcurrencyCeiling == Cardinality(InFlight) <= 2

\* C10: no error of the service leaves a coroutine or the fan-out (the
\* script reaches its critical-error handler only from get_transcript, before
\* any coroutine exists): once the fan-out has returned every coroutine has
\* ended and there is one entry per chunk.
C10_FailuresAreData ==
    /\ pc = "critical_error" => (tasks = <<>> /\ attempts = StopAfterAttempt)
    /\ \A i \in 1..Len(tasks) : tasks[i].state = "done" => ~tasks[i].outcome.raised
    /\ pc \in PostGather =>
           /\ AllTasksDone
           /\ Len(partial_summaries) = Len(chunks)
           /\ \A i \in 1..Len(tasks) :
                  TaskFailed(i) => IsFailureText(partial_summaries[i])

C10_Witness ==
    /\ pc = "progress"
    /\ Len(chunks) >= 2
    /\ tasks[done_order[1]].reply.kind = "error"
    /\ \E i \in 1..Len(tasks) : TaskSucceeded(i) /\ partial_summaries[i] # <<>>

\* ----------------------------------------------------- streaming claims
\* an event that carries the error marker of line 152
IsErrorMarker(ev) == StartsWith(ev, ErrFinalPrefix)

\* the events received before the error marker, if there is one
DeliveredIncrements ==
    IF full_summary # <<>> /\ IsErrorMarker(full_summary[Len(full_summary)])
    THEN SubSeq(full_summary, 1, Len(full_summary) - 1)
    ELSE full_summary

\* the increments of the service that carry text, in the order generated
RECURSIVE NonEmptyOf(_)
NonEmptyOf(s) ==
    IF s = <<>> THEN <<>>
    ELSE IF Head(s) = <<>> THEN NonEmptyOf(Tail(s))
    ELSE <<Head(s)>> \o NonEmptyOf(Tail(s))

\* C11: the caller receives the service's text increments verbatim, in the
\* order generated, without duplication: event k is the k-th increment with
\* text, and the concatenation received equals the concatenation produced.
C11_StreamingOrder ==
    /\ DeliveredIncrements = NonEmptyOf(service_stream)
    /\ Join(<<>>, DeliveredIncrements) = Join(<<>>, service_stream)

C11_Witness ==
    /\ pc = "done"
    /\ service_stream = << <<"x">>, <<"y">> >>
    /\ full_summary = << <<"x">>, <<"y">> >>

\* C12: when the synthesis request or its stream raised, the caller has
\* received exactly one event carrying the error marker, it comes after every
\* increment delivered before the failure, and it is the last event; no
\* marker is received without a failure.
C12_FailureSignalled ==
    /\ synth_error # NoError =>
           /\ full_summary # <<>>
           /\ full_summary[Len(full_summary)] = ErrFinalPrefix \o ErrorText(synth_error)
           /\ SubSeq(full_summary, 1, Len(full_summary) - 1) = NonEmptyOf(service_stream)
           /\ pc = "done"
    /\ \A k \in 1..Len(full_summary) :
           IsErrorMarker(full_summary[k]) => k = Len(full_summary) /\ synth_error # NoError

C12_Witness ==
    /\ synth_error # NoError
    /\ service_stream = << <<"x">>, <<>> >>
    /\ Len(full_summary) = 2

\* ------------------------------------------- cache, outcome, stage claims
\* C13: two chunks with identical text cause exactly one request to the
\* service between them, and both end with the same result.
C13_CacheShortCircuit ==
    \A i, j \in 1..Len(tasks) :
        (i < j /\ chunks[i] = chunks[j]) =>
            /\ tasks[i].calls + tasks[j].calls <= 1
            /\ (tasks[i].state = "done" /\ tasks[j].state = "done")
                   => tasks[i].outcome.value = tasks[j].outcome.value

\* C14: a finished chunk summarization is a success with non-empty text or
\* a failure with an error detail; never a non-failure with empty text.
C14_TerminalOutcome ==
    \A i \in 1..Len(tasks) :
        tasks[i].state = "done" =>
            \/ IsFailureText(tasks[i].outcome.value)
            \/ tasks[i].outcome.value # <<>>

\* C16: the synthesis request is issued at most once and only after every
\* chunk's summarization has ended; no synthesis event reaches the caller
\* while a per-chunk request is created but unfinished.
C16_StageOrdering ==
    /\ synth_calls <= 1
    /\ synth_calls > 0 =>
           /\ Len(tasks) = Len(chunks)
           /\ \A i \in 1..Len(tasks) : tasks[i].state = "done"
    /\ (full_summary # <<>> \/ service_stream # <<>>) =>
           /\ synth_calls = 1
           /\ \A i \in 1..Len(tasks) : tasks[i].state = "done"

C16_Witness ==
    /\ pc = "streaming"
    /\ Len(tasks) >= 3
    /\ done_order[1] = Len(tasks)
    /\ full_summary # <<>>

\* the coroutines that have reached their terminal outcome
Finished == {i \in 1..Len(tasks) : tasks[i].state = "done"}

\* C17: one progress event is emitted per chunk, when the chunk reaches its
\* terminal outcome: during the fan-out the events emitted count the chunks
\* finished so far, and all have been emitted when the fan-out has returned.
C17_ProgressObservability ==
    /\ pc = "gather" => progress = Cardinality(Finished)
    /\ pc \in PostGather => progress = Len(chunks)

\* number of characters in front of partial j in the combined text
RECURSIVE OffsetOf(_, _)
OffsetOf(partials, j) ==
    IF j <= 1 THEN 0 ELSE OffsetOf(partials, j-1) + Len(partials[j-1]) + 2

\* C18: the text of the synthesis request is the first SynthCharBudget
\* characters of the partial summaries joined in chunk order: when any text
\* of partial j is included, every partial i < j is included in full.
C18_TruncationKeepsPrefix ==
    synth_calls > 0 =>
        LET combined == Join(<<"\n", "\n">>, partial_summaries)
            n == Len(synth_prompt)
        IN  /\ n = (IF Len(combined) < SynthCharBudget THEN Len(combined) ELSE SynthCharBudget)
            /\ \A k \in 1..n : synth_prompt[k] = combined[k]
            /\ \A j \in 1..Len(partial_summaries) :
                   (partial_summaries[j] # <<>> /\ OffsetOf(partial_summaries, j) < n) =>
                       \A i \in 1..(j-1) :
                           SubSeq(synth_prompt,
                                  OffsetOf(partial_summaries, i) + 1,
                                  OffsetOf(partial_summaries, i) + Len(partial_summaries[i]))
                               = partial_summaries[i]

C18_Witness ==
    /\ synth_calls > 0
    /\ Len(partial_summaries) >= 3
    /\ Len(Join(<<"\n", "\n">>, partial_summaries)) > SynthCharBudget
    /\ partial_summaries[1] # partial_summaries[2]
    /\ partial_summaries[1] # <<>>
    /\ partial_summaries[Len(partial_summaries)] # <<>>

\* ------------------------------------------------- blank-paragraph claim
\* the lines of a list that contain at least one word
RECURSIVE LinesWithWords(_)
LinesWithWords(ls) ==
    IF ls = <<>> THEN <<>>
    ELSE IF SplitWs(Head(ls)) = <<>> THEN LinesWithWords(Tail(ls))
    ELSE <<Head(ls)>> \o LinesWithWords(Tail(ls))

\* the text without its zero-word lines
RemoveBlankLines(t) == Join(<<"\n">>, LinesWithWords(SplitOn(t, "\n")))

\* C15: chunk_text yields the same chunks for a text as for the text with
\* its zero-word lines removed.
C15_BlankLinesNeutral ==
    pc = "chunk_done" => chunks = chunk_text(RemoveBlankLines(text), max_words)

\* ------------------------------------------------------- video id claim
\* the match of the first pattern, in list order from k on, that matches
RECURSIVE FirstMatchFrom(_, _)
FirstMatchFrom(k, s) ==
    IF k > NumPatterns THEN None
    ELSE IF re_search(k, s).matched THEN re_search(k, s)
    ELSE FirstMatchFrom(k + 1, s)

\* C19: extraer_video_id returns the identifier captured by the first
\* pattern of the list that matches, and None only when no pattern matches;
\* a bare identifier is returned as it is and accepted by the script.
C19_FirstMatchingPattern ==
    pc # "form_submitted" =>
        /\ video_id = FirstMatchFrom(1, url)
        /\ (Len(url) = IdLen /\ \A k \in 1..Len(url) : url[k] \in IdChars)
               => video_id = Match(url) /\ pc = "get_transcript"
====
